---- MODULE Spec2Model ----
(***************************************************************************)
(* Model of the watchtower store and justice-transaction reconstructor of  *)
(* watchtower/watchdb.go: the three bolt buckets (pkm, cda, txi), the      *)
(* write transactions AddNewChannel and AddMsg, the read transaction       *)
(* IngestTx and BuildJusticeTx.                                            *)
(*                                                                         *)
(* Byte strings are sequences of pieces <<w, v>>: w bytes carrying the     *)
(* value v.  A plain byte is <<1, b>>; a 20-byte pubkey hash is one piece  *)
(* <<20, p>>.  Slicing ([:8], [:16], [:96], [2:]) counts bytes, so the     *)
(* lengths of the source appear unchanged.                                 *)
(*                                                                         *)
(* uint32 is two 16-bit limbs <<hi, lo>>, uint64 four limbs (most          *)
(* significant first), so that the full width of the program's integers    *)
(* is kept.                                                               *)
(***************************************************************************)
EXTENDS Integers, Sequences, FiniteSets, TLC

VARIABLES db, opened, ret, hist, wtx

vars == <<db, opened, ret, hist, wtx>>

-----------------------------------------------------------------------------
(* Bounds of the model *)

\* most AddMsg commits in one run
MaxHints == 2

-----------------------------------------------------------------------------
(* Byte strings *)

RECURSIVE ByteLen(_)
ByteLen(s) == IF s = <<>> THEN 0 ELSE Head(s)[1] + ByteLen(Tail(s))

\* s[:n]
RECURSIVE TakeBytes(_, _)
TakeBytes(s, n) ==
    IF n <= 0 \/ s = <<>> THEN <<>>
    ELSE <<Head(s)>> \o TakeBytes(Tail(s), n - Head(s)[1])

\* s[n:]
RECURSIVE DropBytes(_, _)
DropBytes(s, n) ==
    IF n <= 0 \/ s = <<>> THEN s ELSE DropBytes(Tail(s), n - Head(s)[1])

\* bytes.Compare order of two byte strings made of plain bytes
RECURSIVE BytesLess(_, _)
BytesLess(a, b) ==
    IF b = <<>> THEN FALSE
    ELSE IF a = <<>> THEN TRUE
    ELSE IF Head(a)[2] # Head(b)[2] THEN Head(a)[2] < Head(b)[2]
    ELSE BytesLess(Tail(a), Tail(b))

-----------------------------------------------------------------------------
(* lnutil integer conversions (big-endian) *)

U32tB(x) ==
    << <<1, x[1] \div 256>>, <<1, x[1] % 256>>,
       <<1, x[2] \div 256>>, <<1, x[2] % 256>> >>

\* a slice that is not 4 bytes long (the key of an empty bucket) reads as
\* 0xffffffff, so that adding 1 gives index 0
BtU32(b) ==
    IF ByteLen(b) # 4 THEN <<65535, 65535>>
    ELSE <<b[1][2] * 256 + b[2][2], b[3][2] * 256 + b[4][2]>>

\* uint32 + 1
Add1U32(x) ==
    IF x[2] < 65535 THEN <<x[1], x[2] + 1>>
    ELSE IF x[1] < 65535 THEN <<x[1] + 1, 0>>
    ELSE <<0, 0>>

U64tB(x) ==
    << <<1, x[1] \div 256>>, <<1, x[1] % 256>>,
       <<1, x[2] \div 256>>, <<1, x[2] % 256>>,
       <<1, x[3] \div 256>>, <<1, x[3] % 256>>,
       <<1, x[4] \div 256>>, <<1, x[4] % 256>> >>

BtU64(b) ==
    <<b[1][2] * 256 + b[2][2], b[3][2] * 256 + b[4][2],
      b[5][2] * 256 + b[6][2], b[7][2] * 256 + b[8][2]>>

\* uint64 + 1
Add1U64(x) ==
    IF x[4] < 65535 THEN <<x[1], x[2], x[3], x[4] + 1>>
    ELSE IF x[3] < 65535 THEN <<x[1], x[2], x[3] + 1, 0>>
    ELSE IF x[2] < 65535 THEN <<x[1], x[2] + 1, 0, 0>>
    ELSE IF x[1] < 65535 THEN <<x[1] + 1, 0, 0, 0>>
    ELSE <<0, 0, 0, 0>>

Less64(x, y) ==
    \E i \in 1..4 : x[i] < y[i] /\ \A j \in 1..(i - 1) : x[j] = y[j]

\* the uint64 of a small natural number
U64(n) == <<0, 0, n \div 65536, n % 65536>>

U32(n) == <<n \div 65536, n % 65536>>

-----------------------------------------------------------------------------
(* Hash-tree receiver (elkrem), as the store uses it: a receiver that has  *)
(* taken n leaves of the sender with a given seed.  A revocation scalar is *)
(* <<seed, pos>>: leaf number pos of that sender.                          *)

Ok == "nil"

\* var elkr elkrem.ElkremReceiver
EmptyElk == [seed |-> 0, n |-> U64(0)]

\* the first leaf is taken as it comes; a later one must be the sender's
\* leaf at the next position
AddNext(R, s) ==
    IF R.n = U64(0) THEN [err |-> Ok, elk |-> [seed |-> s[1], n |-> U64(1)]]
    ELSE IF s = <<R.seed, R.n>>
         THEN [err |-> Ok, elk |-> [R EXCEPT !.n = Add1U64(R.n)]]
    ELSE [err |-> "HashTreeReject", elk |-> R]

\* the count of leaves taken
UpTo(R) == R.n

AtIndex(R, w) ==
    IF Less64(w, R.n) THEN [err |-> Ok, sha |-> <<R.seed, w>>]
    ELSE [err |-> "HashTreeOutOfRange", sha |-> <<0, U64(0)>>]

ElkToBytes(R) == << <<32, R.seed>> >> \o U64tB(R.n)

ElkremReceiverFromBytes(b) ==
    IF b = <<>> THEN [err |-> Ok, elk |-> EmptyElk]
    ELSE IF ByteLen(b) # 40 THEN [err |-> "MalformedElk", elk |-> EmptyElk]
    ELSE [err |-> Ok, elk |-> [seed |-> b[1][2], n |-> BtU64(Tail(b))]]

-----------------------------------------------------------------------------
(* Record codec *)

\* the 128 bytes of a descriptor: 96 static bytes, then elk zero
WdToBytes(wd) ==
    << <<20, wd.DestPKHScript>>, <<33, wd.AdversaryBasePoint>>,
       <<33, wd.CustomerBasePoint>>, <<2, wd.Delay>>, <<8, wd.Fee>>,
       <<32, wd.ElkZero>> >>

WatchannelDescriptorFromBytes(b) ==
    IF ByteLen(b) < 96
    THEN [err |-> "MalformedDescriptor",
          wd |-> [DestPKHScript |-> 0, AdversaryBasePoint |-> 0,
                  CustomerBasePoint |-> 0, Delay |-> 0, Fee |-> 0]]
    ELSE [err |-> Ok,
          wd |-> [DestPKHScript |-> b[1][2], AdversaryBasePoint |-> b[2][2],
                  CustomerBasePoint |-> b[3][2], Delay |-> b[4][2],
                  Fee |-> b[5][2]]]

NoIdxSig == [PKHIdx |-> U32(0), StateIdx |-> U64(0), Sig |-> <<"sig", 0, 0, 0>>]

BuildIdxSig(who, when, sig) == [PKHIdx |-> who, StateIdx |-> when, Sig |-> sig]

\* 74 bytes: index (4), state number (6, widened to a uint64), signature (64)
IdxSigFromBytes(b) ==
    IF ByteLen(b) # 74 THEN [err |-> "MalformedHint", sig |-> NoIdxSig]
    ELSE [err |-> Ok,
          sig |-> BuildIdxSig(
                      BtU32(TakeBytes(b, 4)),
                      BtU64(<< <<1, 0>>, <<1, 0>> >> \o
                            TakeBytes(DropBytes(b, 4), 6)),
                      DropBytes(b, 10)[1][2])]

-----------------------------------------------------------------------------
(* bolt buckets: a bucket is a function from the keys it holds *)

BUCKETPKHMap == "pkm"
BUCKETChandata == "cda"
BUCKETTxid == "txi"

KEYStatic == "sta"
KEYElkRcv == "elk"
KEYIdx == "idx"

EmptyBucket == <<>>

Put(b, k, v) == [x \in (DOMAIN b) \cup {k} |-> IF x = k THEN v ELSE b[x]]

\* nil (the empty byte string) for a key the bucket does not hold
Get(b, k) == IF k \in DOMAIN b THEN b[k] ELSE <<>>

\* Cursor.Last: the greatest key, nil in an empty bucket
CursorLast(b) ==
    IF DOMAIN b = {} THEN <<>>
    ELSE CHOOSE k \in DOMAIN b : \A j \in DOMAIN b : j = k \/ BytesLess(j, k)

\* a database file that holds no bucket yet
NewFile == [bkts |-> {}, pkm |-> EmptyBucket, cda |-> EmptyBucket,
            txi |-> EmptyBucket]

\* what a transaction function returns: its error and the transaction's
\* working copy of the database at that moment
TxResult(e, d) == [err |-> e, db |-> d]

UpdateNoRollback(d, res) == res.db

\* DB.Update: commit the working copy when the function returns nil, roll
\* every write back when it returns an error
Update(d, res) == IF res.err = Ok THEN res.db ELSE d

-----------------------------------------------------------------------------
(* The write transactions *)

\* wd.DestPKHScript[:] and cm.DestPKH[:], the 20-byte name of a channel bucket
PKHBytes(p) == << <<20, p>> >>

\* the library calls of a write transaction whose error return the code
\* checks; "none": every call succeeds
Faults == {"none", "ToBytes", "PutIdx", "PutLast"}

\* Bucket.Bucket: the sub-bucket of that name, an empty one when there is none
SubBucket(b, name) == IF name \in DOMAIN b THEN b[name] ELSE EmptyBucket

\* Bucket.Put into the sub-bucket name of the channel data bucket
PutChan(d, name, k, v) ==
    [d EXCEPT !.cda = Put(d.cda, name, Put(SubBucket(d.cda, name), k, v))]

NewIdxSame(d) == BtU32(CursorLast(d.pkm))

\* the index of a new channel: one more than the last key of the map bucket
NewIdx(d) == Add1U32(BtU32(CursorLast(d.pkm)))

CreateBucketIfNotExists(b, name) ==
    [err |-> Ok, b |-> Put(b, name, SubBucket(b, name))]

\* Bucket.CreateBucket: an error when there is a bucket of that name
CreateBucket(b, name) ==
    IF name \in DOMAIN b THEN [err |-> "ChannelExists", b |-> b]
    ELSE [err |-> Ok, b |-> Put(b, name, EmptyBucket)]

FirstElkEmpty(wd) == EmptyElk

\* the receiver of a new channel: elk zero is its first leaf
FirstElk(wd) == AddNext(EmptyElk, wd.ElkZero).elk

\* the function AddNewChannel runs inside DB.Update
AddNewChannelTx(d, wd, fault) ==
    IF BUCKETPKHMap \notin d.bkts THEN TxResult("NoBucket", d)
    ELSE
    LET newIdx == NewIdx(d)
        newIdxBytes == U32tB(newIdx)
        name == PKHBytes(wd.DestPKHScript)
    IN
    IF BUCKETChandata \notin d.bkts THEN TxResult("NoBucket", d)
    ELSE
    LET made == CreateBucket(d.cda, name) IN
    IF made.err # Ok THEN TxResult(made.err, d)
    ELSE
    LET wdBytes == WdToBytes(wd)
        d1 == [d EXCEPT !.cda = made.b]
    IN
    IF ByteLen(wdBytes) < 96 THEN TxResult("MalformedDescriptor", d1)
    ELSE
    LET d2 == PutChan(d1, name, KEYStatic, TakeBytes(wdBytes, 96))
        elkBytes == ElkToBytes(FirstElk(wd))
    IN
    IF fault = "ToBytes" THEN TxResult("ToBytesError", d2)
    ELSE
    LET d3 == PutChan(d2, name, KEYElkRcv, elkBytes) IN
    IF fault = "PutIdx" THEN TxResult("PutError", d3)
    ELSE
    LET d4 == PutChan(d3, name, KEYIdx, newIdxBytes) IN
    IF fault = "PutLast" THEN TxResult("PutError", d4)
    ELSE TxResult(Ok, [d4 EXCEPT !.pkm = Put(d4.pkm, newIdxBytes, name)])

\* the 74 bytes of a txid bucket value
SigIdxBytes(cIdxBytes, stateNumBytes, sig) ==
    TakeBytes(cIdxBytes, 4) \o DropBytes(stateNumBytes, 2) \o << <<64, sig>> >>

\* the key AddMsg stores a hint under
AddMsgKey(cm) == TakeBytes(cm.ParTxid, 8)

ChanNeverMissing(d, name) == FALSE

\* chanBucket == nil
ChanMissing(d, name) == name \notin DOMAIN d.cda

PutElkAsStatic(d, name, elkBytes) ==
    IF name \in DOMAIN d.cda THEN PutChan(d, name, KEYStatic, elkBytes) ELSE d

\* chanBucket.Put(KEYElkRcv, elkBytes)
PutElk(d, name, elkBytes) ==
    IF name \in DOMAIN d.cda THEN PutChan(d, name, KEYElkRcv, elkBytes) ELSE d

\* the function AddMsg runs inside DB.Update
AddMsgTx(d, cm, fault) ==
    IF BUCKETChandata \notin d.bkts THEN TxResult("NoBucket", d)
    ELSE
    LET name == PKHBytes(cm.DestPKH) IN
    IF ChanMissing(d, name) THEN TxResult("UnknownChannel", d)
    ELSE
    LET chanBucket == SubBucket(d.cda, name)
        dec == ElkremReceiverFromBytes(Get(chanBucket, KEYElkRcv))
    IN
    IF dec.err # Ok THEN TxResult(dec.err, d)
    ELSE
    LET add == AddNext(dec.elk, cm.Elk) IN
    IF add.err # Ok THEN TxResult(add.err, d)
    ELSE
    LET elkr == add.elk
        stateNumBytes == U64tB(UpTo(elkr))
        elkBytes == ElkToBytes(elkr)
    IN
    IF fault = "ToBytes" THEN TxResult("ToBytesError", d)
    ELSE
    LET d1 == PutElk(d, name, elkBytes)
        cIdxBytes == Get(SubBucket(d1.cda, name), KEYIdx)
    IN
    IF cIdxBytes = <<>> THEN TxResult("MissingIndex", d1)
    ELSE IF BUCKETTxid \notin d1.bkts THEN TxResult("NoBucket", d1)
    ELSE
    LET sigIdxBytes == SigIdxBytes(cIdxBytes, stateNumBytes, cm.Sig) IN
    IF fault = "PutLast" THEN TxResult("PutError", d1)
    ELSE TxResult(Ok, [d1 EXCEPT !.txi = Put(d1.txi, AddMsgKey(cm), sigIdxBytes)])

-----------------------------------------------------------------------------
(* A write transaction in flight.  DB.Update takes the writer lock, runs   *)
(* the function on a working copy, and commits or rolls back when the       *)
(* function returns; DB.View reads the last committed state.  wtx is the    *)
(* open write transaction: its operation, its argument and the library call *)
(* the function has reached (named as in Faults, "none": its return).       *)

NoWtx == [op |-> "none"]

\* the library call the function reaches after the one at
NextPoint(op, at) ==
    IF at = "ToBytes" THEN (IF op = "AddMsg" THEN "PutLast" ELSE "PutIdx")
    ELSE IF at = "PutIdx" THEN "PutLast"
    ELSE "none"

\* what the function of the open transaction returns when it ends at w.at
TxOf(d, w) ==
    IF w.op = "AddNewChannel" THEN AddNewChannelTx(d, w.arg, w.at)
    ELSE IF w.op = "AddMsg" THEN AddMsgTx(d, w.arg, w.at)
    ELSE TxResult(Ok, d)

\* the writes the function of the open transaction has made so far
WorkingCopy(d, w) == TxOf(d, w).db

SnapshotDirty(d, w) == WorkingCopy(d, w)

\* DB.View: a read transaction sees the committed state, whatever a write
\* transaction in flight has written
Snapshot(d, w) == d

-----------------------------------------------------------------------------
(* The read transaction of IngestTx *)

\* the key IngestTx looks a transaction id up under
IngestKey(txid) == TakeBytes(txid, 16)

IngestTxViewMissIsError(d, txid) ==
    IF BUCKETTxid \notin d.bkts \/ Get(d.txi, IngestKey(txid)) = <<>>
    THEN [err |-> "NoBucket", hit |-> FALSE, sig |-> NoIdxSig]
    ELSE [err |-> Ok, hit |-> TRUE, sig |-> IdxSigFromBytes(d.txi[IngestKey(txid)]).sig]

\* hitsig and err of IngestTx; hit: hitsig is not nil
IngestTxView(d, txid) ==
    IF BUCKETTxid \notin d.bkts
    THEN [err |-> "NoBucket", hit |-> FALSE, sig |-> NoIdxSig]
    ELSE
    LET b == Get(d.txi, IngestKey(txid)) IN
    IF b = <<>> THEN [err |-> Ok, hit |-> FALSE, sig |-> NoIdxSig]
    ELSE
    LET dec == IdxSigFromBytes(b) IN
    IF dec.err # Ok THEN [err |-> dec.err, hit |-> FALSE, sig |-> NoIdxSig]
    ELSE [err |-> Ok, hit |-> TRUE, sig |-> dec.sig]

-----------------------------------------------------------------------------
(* BuildJusticeTx.  Curve points and scripts are terms: the point of a     *)
(* scalar, the sum of two points, the commit script of two keys and a      *)
(* delay, its P2WSH wrapping.  Two terms are equal exactly when they are    *)
(* built from equal parts.                                                  *)

PrivKeyFromBytes(sha) == <<"point", sha>>

ParsePubKey(b) ==
    IF b = "invalid" THEN [err |-> "MalformedDescriptor", key |-> <<"point", b>>]
    ELSE [err |-> Ok, key |-> <<"point", b>>]

Combine(a, b) == <<"sum", a, b>>

CommitScript(rev, timeout, delay) == <<"commit", rev, timeout, delay>>

P2WSHify(script) == <<"wsh", script>>

DirectWPKHScriptFromPKH(p) == <<"wpkh", p>>

SigDecompress(sig) == <<"der", sig>>

TxHashZero(tx) == << <<8, 0>>, <<8, 0>>, <<8, 0>>, <<8, 0>> >>

\* the id of a transaction; Id stands for all of it but its outputs
TxHash(tx) == tx.Id

NoTx == [TxIn |-> <<>>, TxOut |-> <<>>]

\* the P2WSH script of the revocable output of a channel at one state
OutputScript(wd, elkScalarHash) ==
    LET elkPoint == PrivKeyFromBytes(elkScalarHash)
        AttackerBase == ParsePubKey(wd.AdversaryBasePoint).key
        CustomerBase == ParsePubKey(wd.CustomerBasePoint).key
        TimeoutKey == Combine(AttackerBase, elkPoint)
        Revkey == Combine(CustomerBase, elkPoint)
    IN P2WSHify(CommitScript(Revkey, TimeoutKey, wd.Delay))

\* the loop over badTx.TxOut from output i on: txoutNum starts as 999 and
\* becomes the 0-based number of the first output that pays to script, where
\* the loop breaks
MatchTxOut(outs, script, i) ==
    LET found == {j \in i..Len(outs) : outs[j].PkScript = script} IN
    IF found = {} THEN 999
    ELSE (CHOOSE j \in found : \A k \in found : j <= k) - 1

\* the read transaction of BuildJusticeTx: wd and elkRcv
LoadChannel(d, isig) ==
    LET none == [err |-> Ok, wd |-> WatchannelDescriptorFromBytes(<<>>).wd,
                 elkRcv |-> EmptyElk]
    IN
    IF BUCKETPKHMap \notin d.bkts THEN [none EXCEPT !.err = "NoBucket"]
    ELSE
    LET pkh == Get(d.pkm, U32tB(isig.PKHIdx)) IN
    IF pkh = <<>> THEN [none EXCEPT !.err = "UnknownIndex"]
    ELSE IF BUCKETChandata \notin d.bkts THEN [none EXCEPT !.err = "NoBucket"]
    ELSE IF pkh \notin DOMAIN d.cda THEN [none EXCEPT !.err = "NoBucket"]
    ELSE
    LET pkhBucket == d.cda[pkh]
        static == Get(pkhBucket, KEYStatic)
    IN
    IF static = <<>> THEN [none EXCEPT !.err = "NoStatic"]
    ELSE
    LET decwd == WatchannelDescriptorFromBytes(static) IN
    IF decwd.err # Ok THEN [none EXCEPT !.err = decwd.err]
    ELSE
    LET elkBytes == Get(pkhBucket, KEYElkRcv) IN
    IF elkBytes = <<>> THEN [none EXCEPT !.err = "NoElk"]
    ELSE
    LET decelk == ElkremReceiverFromBytes(elkBytes) IN
    IF decelk.err # Ok THEN [none EXCEPT !.err = decelk.err]
    ELSE [err |-> Ok, wd |-> decwd.wd, elkRcv |-> decelk.elk]

\* justiceTx and err of BuildJusticeTx
JusticeTx(d, badTx, isig) ==
    LET load == LoadChannel(d, isig) IN
    IF load.err # Ok THEN [err |-> load.err, tx |-> NoTx]
    ELSE
    LET wd == load.wd
        at == AtIndex(load.elkRcv, isig.StateIdx)
    IN
    IF at.err # Ok THEN [err |-> at.err, tx |-> NoTx]
    ELSE IF ParsePubKey(wd.AdversaryBasePoint).err # Ok
    THEN [err |-> "MalformedDescriptor", tx |-> NoTx]
    ELSE IF ParsePubKey(wd.CustomerBasePoint).err # Ok
    THEN [err |-> "MalformedDescriptor", tx |-> NoTx]
    ELSE
    LET shOutputScript == OutputScript(wd, at.sha)
        txoutNum == MatchTxOut(badTx.TxOut, shOutputScript, 1)
    IN
    IF txoutNum = 999 THEN [err |-> "ScriptMismatch", tx |-> NoTx]
    ELSE
    LET justiceAmt == badTx.TxOut[txoutNum + 1].Value - wd.Fee
        justicePkScript == DirectWPKHScriptFromPKH(wd.DestPKHScript)
        justiceOut == [Value |-> justiceAmt, PkScript |-> justicePkScript]
        justiceIn == [PreviousOutPoint |-> [Hash |-> TxHash(badTx), Index |-> txoutNum],
                      SignatureScript |-> <<>>,
                      Witness |-> << <<1>>, SigDecompress(isig.Sig) >>,
                      Sequence |-> 1]
    IN [err |-> Ok, tx |-> [TxIn |-> <<justiceIn>>, TxOut |-> <<justiceOut>>]]

-----------------------------------------------------------------------------
(* Inputs *)

\* the pubkey hashes of the customers
PKHs == {1, 2}

Fees == {1, 5}

\* a 32-byte transaction id in four 8-byte pieces
Txid(a, b, c) == << <<8, a>>, <<8, b>>, <<8, c>>, <<8, 0>> >>

\* two ids that agree on their first 16 bytes, one that agrees with them on
\* the first 8 only, one that differs in the first 8
Txids == {Txid(1, 1, 1), Txid(1, 1, 2), Txid(1, 2, 1), Txid(2, 1, 1)}

\* the descriptor of the channel of pkh p: elk zero is leaf 0 of sender p
Descriptor(p, f) ==
    [DestPKHScript |-> p, AdversaryBasePoint |-> "adv", CustomerBasePoint |-> "cust",
     Delay |-> 5, Fee |-> f, ElkZero |-> <<p, U64(0)>>]

\* two descriptors for pkh 1, one for pkh 2
Descriptors == {Descriptor(1, f) : f \in Fees} \cup {Descriptor(2, 1)}

\* the receiver stored for channel p, the empty receiver when there is none
ElkOf(d, p) ==
    IF PKHBytes(p) \in DOMAIN d.cda
    THEN ElkremReceiverFromBytes(Get(d.cda[PKHBytes(p)], KEYElkRcv)).elk
    ELSE EmptyElk

\* the customer's signature of the justice transaction that spends the
\* commitment transaction t
SigOf(t) == <<"sig", t[1][2], t[2][2], t[3][2]>>

ComMsg(p, sha, t) == [DestPKH |-> p, Elk |-> sha, ParTxid |-> t, Sig |-> SigOf(t)]

\* messages in order: for pkh p the next leaf of its sender, with any
\* transaction id
ComMsgs(d) == {ComMsg(p, <<p, UpTo(ElkOf(d, p))>>, t) : p \in PKHs, t \in Txids}

\* messages out of order: for pkh p leaf 0 of its sender again
StaleMsgs == {ComMsg(p, <<p, U64(0)>>, Txid(1, 1, 1)) : p \in PKHs}

\* the messages a library call is made to fail on
FaultMsgs(d) == {cm \in ComMsgs(d) : cm.ParTxid = Txid(1, 1, 1)}

\* a commitment transaction with id t: a change output, then the revocable
\* output of channel wd at the state of leaf sha, worth v
CommitTx(t, wd, sha, v) ==
    [Id |-> t,
     TxOut |-> << [Value |-> 3, PkScript |-> DirectWPKHScriptFromPKH(9)],
                  [Value |-> v, PkScript |-> OutputScript(wd, sha)] >>]

\* a transaction with id t that pays to no channel
LureTx(t) ==
    [Id |-> t, TxOut |-> << [Value |-> 3, PkScript |-> DirectWPKHScriptFromPKH(9)] >>]

\* the number of outputs of a wide transaction
WideOuts == 1000

\* a commitment transaction with id t and WideOuts outputs: change outputs,
\* and last the revocable output of channel wd at the state of leaf sha
WideTx(t, wd, sha, v) ==
    [Id |-> t,
     TxOut |-> [i \in 1..WideOuts |->
                   IF i < WideOuts
                   THEN [Value |-> 3, PkScript |-> DirectWPKHScriptFromPKH(9)]
                   ELSE [Value |-> v, PkScript |-> OutputScript(wd, sha)]]]

\* the transactions the chain watcher hands over: per channel of the store
\* the commitment transaction of its state of leaf 1, and a lure
BadTxs(d) ==
    {CommitTx(Txid(1, 1, 1), WatchannelDescriptorFromBytes(Get(d.cda[c], KEYStatic)).wd,
              <<ElkOf(d, c[1][2]).seed, U64(1)>>, 5) : c \in DOMAIN d.cda}
    \cup {LureTx(Txid(1, 1, 1))}

\* the wide commitment transaction of the state of leaf 1 of the channel of
\* pkh 1
WideTxs(d) ==
    {WideTx(Txid(1, 1, 1), WatchannelDescriptorFromBytes(Get(d.cda[c], KEYStatic)).wd,
            <<ElkOf(d, c[1][2]).seed, U64(1)>>, 5) : c \in DOMAIN d.cda \cap {PKHBytes(1)}}

\* the hints a caller hands over: those of the store, one for state 1 of
\* the channel of index 0, one for an index that no channel has
IdxSigs(d) ==
    {IdxSigFromBytes(d.txi[k]).sig : k \in DOMAIN d.txi}
    \cup {BuildIdxSig(U32(0), U64(1), SigOf(Txid(1, 1, 1))),
          BuildIdxSig(U32(7), U64(1), SigOf(Txid(1, 1, 1)))}

-----------------------------------------------------------------------------
(* State *)

AllBuckets == {BUCKETPKHMap, BUCKETChandata, BUCKETTxid}

\* a file written by an earlier, long run: the channel of pkh 1 has taken
\* 2^48 - 1 leaves (the hints of that run lie under transaction ids that do
\* not occur in this one)
AgedFile ==
    [bkts |-> AllBuckets,
     pkm |-> Put(EmptyBucket, U32tB(U32(0)), PKHBytes(1)),
     cda |-> Put(EmptyBucket, PKHBytes(1),
                 [sta |-> TakeBytes(WdToBytes(Descriptor(1, 1)), 96),
                  elk |-> ElkToBytes([seed |-> 1, n |-> <<0, 65535, 65535, 65535>>]),
                  idx |-> U32tB(U32(0))]),
     txi |-> EmptyBucket]

\* a file written by an earlier, long run that created 2^32 channels: of
\* these the first, of pkh 1, and the last, of pkh 3 (the channels between
\* them belong to pkhs that do not occur in this run, nor do the hints)
FullFile ==
    [bkts |-> AllBuckets,
     pkm |-> Put(Put(EmptyBucket, U32tB(U32(0)), PKHBytes(1)),
                 U32tB(<<65535, 65535>>), PKHBytes(3)),
     cda |-> Put(Put(EmptyBucket, PKHBytes(1),
                     [sta |-> TakeBytes(WdToBytes(Descriptor(1, 1)), 96),
                      elk |-> ElkToBytes(FirstElk(Descriptor(1, 1))),
                      idx |-> U32tB(U32(0))]),
                 PKHBytes(3),
                 [sta |-> TakeBytes(WdToBytes(Descriptor(3, 1)), 96),
                  elk |-> ElkToBytes(FirstElk(Descriptor(3, 1))),
                  idx |-> U32tB(<<65535, 65535>>)]),
     txi |-> EmptyBucket]

\* hist records the run: created (AddNewChannel commits), commits (AddMsg
\* commits), added (of every AddMsg commit the transaction id, the pkh and
\* the leaf), pend (the index a failed AddNewChannel computed, until the
\* next commit), chan (per channel created in this run: its elk zero and
\* the number of its AddMsg commits), atopen (the number of channels the
\* file held when it was last opened), swept (the pkhs of the channels the
\* caller has marked as swept)
InitOn(file) ==
    /\ db = file
    /\ opened = FALSE
    /\ ret = [op |-> "new", err |-> Ok]
    /\ hist = [created |-> 0, commits |-> 0, added |-> {}, pend |-> <<>>,
               chan |-> EmptyBucket, atopen |-> 0, swept |-> {}]
    /\ wtx = NoWtx

\* the tower starts on a file that does not exist yet
Init == InitOn(NewFile)

\* the tower starts on the file of an earlier run
InitAged == InitOn(AgedFile)

\* the tower starts on the file of an earlier run that used every index
InitFull == InitOn(FullFile)

OpenDBTxFresh(d) == [NewFile EXCEPT !.bkts = AllBuckets]

\* the function OpenDB runs inside DB.Update: create the buckets that are
\* not there yet
OpenDBTx(d) == [d EXCEPT !.bkts = d.bkts \cup AllBuckets]

OpenDB ==
    /\ ~opened
    /\ opened' = TRUE
    /\ db' = OpenDBTx(db)
    /\ ret' = [op |-> "OpenDB", err |-> Ok]
    /\ hist' = [hist EXCEPT !.atopen = Cardinality(DOMAIN db.cda)]
    /\ UNCHANGED wtx

\* the owner of the file closes it; the file stays as it is
Close ==
    /\ opened
    /\ wtx.op = "none"
    /\ opened' = FALSE
    /\ ret' = [op |-> "Close", err |-> Ok]
    /\ UNCHANGED <<db, hist, wtx>>

\* OpenDB when bolt.Open fails
OpenDBFails ==
    /\ ~opened
    /\ ret' = [op |-> "OpenDB", err |-> "StorageUnavailable"]
    /\ UNCHANGED <<db, opened, hist, wtx>>

AddNewChannel(wd, fault) ==
    /\ opened
    /\ LET res == AddNewChannelTx(db, wd, fault)
           name == PKHBytes(wd.DestPKHScript)
       IN
       /\ db' = Update(db, res)
       /\ ret' = [op |-> "AddNewChannel", err |-> res.err,
                  pkh |-> wd.DestPKHScript, pend |-> hist.pend]
       /\ hist' = IF res.err = Ok
                  THEN [hist EXCEPT !.created = @ + 1, !.pend = <<>>,
                            !.chan = Put(@, name, [zero |-> wd.ElkZero, hints |-> 0])]
                  ELSE IF res.err = "ChannelExists"
                  THEN [hist EXCEPT !.pend = NewIdx(db)]
                  ELSE hist
    /\ wtx' = NoWtx
    /\ UNCHANGED opened

AddMsg(cm, fault) ==
    /\ opened
    /\ hist.commits < MaxHints
    /\ LET res == AddMsgTx(db, cm, fault)
           name == PKHBytes(cm.DestPKH)
       IN
       /\ db' = Update(db, res)
       /\ ret' = [op |-> "AddMsg", err |-> res.err, pkh |-> cm.DestPKH,
                  txid |-> IF res.err = Ok THEN cm.ParTxid ELSE <<>>,
                  sig |-> IF res.err = Ok THEN cm.Sig ELSE NoIdxSig.Sig]
       /\ hist' = IF res.err = Ok
                  THEN [hist EXCEPT
                            !.commits = @ + 1,
                            !.added = @ \cup {[txid |-> cm.ParTxid, pkh |-> cm.DestPKH,
                                                 sha |-> cm.Elk]},
                            !.chan = IF name \in DOMAIN @
                                     THEN [@ EXCEPT ![name].hints = @ + 1]
                                     ELSE @]
                  ELSE hist
    /\ wtx' = NoWtx
    /\ UNCHANGED opened

\* a read transaction ran beside the open write transaction
Seen(w) == IF w.op = "none" THEN w ELSE [w EXCEPT !.seen = TRUE]

IngestTx(txid) ==
    /\ opened
    /\ LET res == IngestTxView(Snapshot(db, wtx), txid) IN
       ret' = [op |-> "IngestTx", err |-> res.err, txid |-> txid,
               hit |-> res.hit, sig |-> res.sig]
    /\ wtx' = Seen(wtx)
    /\ UNCHANGED <<db, opened, hist>>

BuildJusticeTx(badTx, isig) ==
    /\ opened
    /\ LET res == JusticeTx(Snapshot(db, wtx), badTx, isig) IN
       ret' = [op |-> "BuildJusticeTx", err |-> res.err, tx |-> res.tx]
    /\ wtx' = Seen(wtx)
    /\ UNCHANGED <<db, opened, hist>>

\* the caller has broadcast the justice transaction BuildJusticeTx
\* returned for the channel of pkh p and marks that channel as swept
MarkSwept(p) ==
    /\ opened
    /\ ret.op = "BuildJusticeTx"
    /\ ret.err = Ok
    /\ ret.tx.TxOut[1].PkScript = DirectWPKHScriptFromPKH(p)
    /\ hist' = [hist EXCEPT !.swept = @ \cup {p}]
    /\ ret' = [op |-> "MarkSwept", err |-> Ok, pkh |-> p]
    /\ UNCHANGED <<db, opened, wtx>>

\* DB.Update of AddNewChannel takes the writer lock and starts its function
AddNewChannelBegin(wd) ==
    /\ opened
    /\ wtx.op = "none"
    /\ wtx' = [op |-> "AddNewChannel", arg |-> wd, at |-> "ToBytes", seen |-> FALSE]
    /\ UNCHANGED <<db, opened, ret, hist>>

\* DB.Update of AddMsg takes the writer lock and starts its function
AddMsgBegin(cm) ==
    /\ opened
    /\ wtx.op = "none"
    /\ hist.commits < MaxHints
    /\ wtx' = [op |-> "AddMsg", arg |-> cm, at |-> "ToBytes", seen |-> FALSE]
    /\ UNCHANGED <<db, opened, ret, hist>>

\* the function of the open transaction runs on to its next library call
UpdateStep ==
    /\ wtx.op # "none"
    /\ wtx.at # "none"
    /\ TxOf(db, [wtx EXCEPT !.at = "none"]).err = Ok
    /\ wtx' = [wtx EXCEPT !.at = NextPoint(wtx.op, wtx.at)]
    /\ UNCHANGED <<db, opened, ret, hist>>

\* the function of the open transaction returns, with an error when the
\* library call it has reached fails, and DB.Update commits or rolls back
UpdateEnd ==
    \/ wtx.op = "AddNewChannel" /\ AddNewChannel(wtx.arg, wtx.at)
    \/ wtx.op = "AddMsg" /\ AddMsg(wtx.arg, wtx.at)

Next ==
    \/ OpenDB
    \/ OpenDBFails
    \/ \E wd \in Descriptors, f \in Faults : AddNewChannel(wd, f)
    \/ \E cm \in ComMsgs(db) \cup StaleMsgs : AddMsg(cm, "none")
    \/ \E cm \in FaultMsgs(db), f \in {"ToBytes", "PutLast"} : AddMsg(cm, f)
    \/ \E txid \in Txids : IngestTx(txid)
    \/ \E badTx \in BadTxs(db), isig \in IdxSigs(db) : BuildJusticeTx(badTx, isig)

Spec == Init /\ [][Next]_vars

SpecAged == InitAged /\ [][Next]_vars

SpecFull == InitFull /\ [][Next]_vars

\* the transaction ids of the messages of the step-by-step runs
ConcTxids == {Txid(1, 1, 1), Txid(2, 1, 1)}

\* the write transactions step by step, read transactions beside them
NextConc ==
    \/ OpenDB
    \/ \E wd \in Descriptors : AddNewChannelBegin(wd)
    \/ \E cm \in ComMsgs(db) \cup StaleMsgs :
           cm.ParTxid \in ConcTxids /\ AddMsgBegin(cm)
    \/ UpdateStep
    \/ UpdateEnd
    \/ IngestTx(Txid(1, 1, 1))
    \/ \E badTx \in BadTxs(db) : BuildJusticeTx(badTx, BuildIdxSig(U32(0), U64(1), SigOf(Txid(1, 1, 1))))

SpecConc == Init /\ [][NextConc]_vars

\* one descriptor for each of three pkhs
ReopenDescriptors == {Descriptor(p, 1) : p \in 1..3}

\* runs in which the file is closed and opened again
NextReopen ==
    \/ OpenDB
    \/ OpenDBFails
    \/ Close
    \/ \E wd \in ReopenDescriptors : AddNewChannel(wd, "none")
    \/ \E cm \in ComMsgs(db) : cm.ParTxid \in ConcTxids /\ AddMsg(cm, "none")
    \/ IngestTx(Txid(1, 1, 1))

SpecReopen == Init /\ [][NextReopen]_vars

\* runs in which the chain watcher hands over wide transactions too
NextWide ==
    \/ OpenDB
    \/ \E wd \in Descriptors : AddNewChannel(wd, "none")
    \/ \E cm \in ComMsgs(db) : cm.ParTxid \in ConcTxids /\ AddMsg(cm, "none")
    \/ IngestTx(Txid(1, 1, 1))
    \/ \E badTx \in BadTxs(db) \cup WideTxs(db), isig \in IdxSigs(db) :
           BuildJusticeTx(badTx, isig)

SpecWide == Init /\ [][NextWide]_vars

\* runs in which the caller marks the channels it has swept
NextSwept ==
    \/ OpenDB
    \/ \E wd \in Descriptors : AddNewChannel(wd, "none")
    \/ \E cm \in ComMsgs(db) \cup StaleMsgs :
           cm.ParTxid \in ConcTxids /\ AddMsg(cm, "none")
    \/ \E badTx \in BadTxs(db), isig \in IdxSigs(db) : BuildJusticeTx(badTx, isig)
    \/ \E p \in PKHs : MarkSwept(p)

SpecSwept == Init /\ [][NextSwept]_vars

-----------------------------------------------------------------------------
(* Properties *)

\* byte string p is a prefix of byte string s
IsPrefix(p, s) == Len(p) <= Len(s) /\ SubSeq(s, 1, Len(p)) = p

\* the channel bucket of pkh p
ChanOf(d, p) == SubBucket(d.cda, PKHBytes(p))

\* uint64 - 1
Sub1U64(x) ==
    IF x[4] > 0 THEN <<x[1], x[2], x[3], x[4] - 1>>
    ELSE IF x[3] > 0 THEN <<x[1], x[2], x[3] - 1, 65535>>
    ELSE IF x[2] > 0 THEN <<x[1], x[2] - 1, 65535, 65535>>
    ELSE IF x[1] > 0 THEN <<x[1] - 1, 65535, 65535, 65535>>
    ELSE <<65535, 65535, 65535, 65535>>

\* the receiver that has taken elk zero and the k leaves after it
RECURSIVE Replay(_, _)
Replay(zero, k) ==
    IF k = 0 THEN AddNext(EmptyElk, zero).elk
    ELSE AddNext(Replay(zero, k - 1), <<zero[1], U64(k)>>).elk

AddMsgCommitted == ret.op = "AddMsg" /\ ret.err = Ok

\* C1 (lookup symmetry): in the state an AddMsg(msg) commit leaves,
\* IngestTx(msg.txid) returns a hint, with msg's signature, the index of
\* the channel and the index of the last leaf of its hash tree.
C1_LookupSymmetry ==
    AddMsgCommitted =>
        LET look == IngestTxView(db, ret.txid) IN
        /\ look.err = Ok
        /\ look.hit
        /\ look.sig.Sig = ret.sig
        /\ look.sig.PKHIdx = BtU32(Get(ChanOf(db, ret.pkh), KEYIdx))
        /\ look.sig.StateIdx = Sub1U64(UpTo(ElkOf(db, ret.pkh)))

\* C2 (dense indices): from an empty store, after n AddNewChannel commits,
\* among failed calls and AddMsg calls, the map bucket holds exactly the keys
\* 0..n-1, each with another pkh.
C2_DenseIndices ==
    /\ DOMAIN db.pkm = {U32tB(U32(i)) : i \in 0..(hist.created - 1)}
    /\ \A j, k \in DOMAIN db.pkm : j # k => db.pkm[j] # db.pkm[k]

C2_Witness ==
    /\ hist.created = 2
    /\ hist.commits >= 1
    /\ ret.op = "AddNewChannel"
    /\ ret.err = "ChannelExists"

\* C3 (no partial commit): an AddMsg that returns an error leaves the store
\* as it was, so every lookup returns what it returned before.
C3_NoPartialCommit ==
    [][(ret'.op = "AddMsg" /\ ret'.err # Ok) =>
          /\ db' = db
          /\ \A t \in Txids : IngestTxView(db', t) = IngestTxView(db, t)]_vars

\* an AddMsg failed after it had written the receiver back
C3_Witness ==
    /\ ret.op = "AddMsg"
    /\ ret.err = "PutError"
    /\ hist.commits >= 1

\* C4 (channel exists): AddNewChannel for a pkh that has a channel fails
\* and leaves the store as it was; the next AddNewChannel commit assigns
\* the index the failed call computed.
C4_ChannelExists ==
    [][/\ (ret'.op = "AddNewChannel" /\ PKHBytes(ret'.pkh) \in DOMAIN db.cda) =>
              (ret'.err = "ChannelExists" /\ db' = db)
       /\ (ret'.op = "AddNewChannel" /\ ret'.err = Ok /\ ret'.pend # <<>>) =>
              Get(ChanOf(db', ret'.pkh), KEYIdx) = U32tB(ret'.pend)]_vars

\* an AddNewChannel commit after a call that failed on an existing channel
C4_Witness ==
    /\ ret.op = "AddNewChannel"
    /\ ret.err = Ok
    /\ ret.pend # <<>>
    /\ hist.commits >= 1

\* C5 (unknown channel): AddMsg for a pkh without a channel fails and leaves
\* the three buckets as they were.
C5_UnknownChannel ==
    [][(ret'.op = "AddMsg" /\ PKHBytes(ret'.pkh) \notin DOMAIN db.cda) =>
          (ret'.err = "UnknownChannel" /\ db' = db)]_vars

\* an AddMsg for a pkh without a channel, in a store that holds a channel
\* and a hint
C5_Witness ==
    /\ ret.op = "AddMsg"
    /\ ret.err = "UnknownChannel"
    /\ DOMAIN db.cda # {}
    /\ DOMAIN db.txi # {}

\* C6 (monotone hash tree): an AddMsg commit adds one to the leaf count of
\* its channel, no other step changes the count of an existing channel, and
\* a channel created in this run holds one leaf more than it has hints.
C6_MonotoneHashTree ==
    [][\A p \in PKHs :
          LET before == UpTo(ElkOf(db, p))
              after == UpTo(ElkOf(db', p))
              advanced == ret'.op = "AddMsg" /\ ret'.err = Ok /\ ret'.pkh = p
          IN
          /\ advanced => after = Add1U64(before)
          /\ (~advanced /\ PKHBytes(p) \in DOMAIN db.cda) => after = before
          /\ PKHBytes(p) \in DOMAIN hist'.chan =>
                 after = U64(hist'.chan[PKHBytes(p)].hints + 1)]_vars

\* a channel with two hints beside another channel
C6_Witness ==
    /\ Cardinality(DOMAIN db.cda) = 2
    /\ \E c \in DOMAIN hist.chan : hist.chan[c].hints = 2

\* C7 (state overflow): an AddMsg commits only when the leaf count after the
\* add fits in 48 bits, and the state number of the hint it stores is that
\* count.
C7_StateOverflow ==
    AddMsgCommitted =>
        LET n == UpTo(ElkOf(db, ret.pkh)) IN
        /\ n[1] = 0
        /\ \A k \in DOMAIN db.txi :
               IsPrefix(k, ret.txid) => IdxSigFromBytes(db.txi[k]).sig.StateIdx = n

\* C8 (collision): when the hint of T2 commits after the hint of T1, and T1
\* and T2 differ but agree on their first 16 bytes, the txid bucket holds one
\* entry for that prefix, IngestTx(T1) returns the hint of T2, and
\* BuildJusticeTx of T1's transaction with that hint fails on the script.
C8_CollisionLastWriterWins ==
    AddMsgCommitted =>
        \A a \in hist.added :
            (a.txid # ret.txid /\ IngestKey(a.txid) = IngestKey(ret.txid)) =>
                LET look == IngestTxView(db, a.txid)
                    wd == WatchannelDescriptorFromBytes(
                              Get(ChanOf(db, a.pkh), KEYStatic)).wd
                    just == JusticeTx(db, CommitTx(a.txid, wd, a.sha, 8), look.sig)
                IN
                /\ IngestKey(a.txid) \in DOMAIN db.txi
                /\ look.hit
                /\ look.sig.Sig = ret.sig
                /\ look.sig.PKHIdx = BtU32(Get(ChanOf(db, ret.pkh), KEYIdx))
                /\ just.err = "ScriptMismatch"
                /\ just.tx = NoTx

\* C9 (lookup is read-only): IngestTx leaves the store as it was, returns
\* nil and no error when the txid bucket has no entry under the first 16
\* bytes of the id, and returns what the txid bucket alone determines.
C9_LookupReadOnly ==
    [][ret'.op = "IngestTx" =>
          LET alone == IngestTxView([db EXCEPT !.pkm = EmptyBucket,
                                               !.cda = EmptyBucket], ret'.txid)
          IN
          /\ db' = db
          /\ IngestKey(ret'.txid) \notin DOMAIN db.txi =>
                 (ret'.err = Ok /\ ~ret'.hit)
          /\ ret'.err = alone.err /\ ret'.hit = alone.hit /\ ret'.sig = alone.sig]_vars

\* a lookup that misses in a store that holds hints
C9_Witness ==
    /\ ret.op = "IngestTx"
    /\ ret.err = Ok
    /\ ~ret.hit
    /\ DOMAIN db.txi # {}

WholeChannels(s) ==
    /\ \A c \in DOMAIN s.cda :
           /\ DOMAIN s.cda[c] = {KEYStatic, KEYElkRcv, KEYIdx}
           /\ Get(s.pkm, s.cda[c][KEYIdx]) = c
    /\ \A k \in DOMAIN s.pkm :
           /\ s.pkm[k] \in DOMAIN s.cda
           /\ Get(s.cda[s.pkm[k]], KEYIdx) = k

\* in store s the receivers and the txid bucket agree with the AddMsg
\* commits of the run: a channel holds one leaf per commit beside elk zero,
\* every commit has an entry under a prefix of its transaction id, and every
\* entry lies under a prefix of the transaction id of a commit
WholeHints(s) ==
    /\ \A c \in DOMAIN hist.chan :
           UpTo(ElkremReceiverFromBytes(Get(SubBucket(s.cda, c), KEYElkRcv)).elk)
               = U64(hist.chan[c].hints + 1)
    /\ \A a \in hist.added : \E k \in DOMAIN s.txi : IsPrefix(k, a.txid)
    /\ \A k \in DOMAIN s.txi : \E a \in hist.added : IsPrefix(k, a.txid)

\* C11 (atomic visibility): whatever a write transaction in flight has
\* written, the state a read transaction sees holds whole channel records
\* only, and a receiver is advanced in it exactly when the hint of that
\* AddMsg is in the txid bucket.
C11_AtomicVisibility ==
    /\ WholeChannels(Snapshot(db, wtx))
    /\ WholeHints(Snapshot(db, wtx))

\* a read transaction ran while an AddMsg had written the receiver back and
\* not yet the hint, in a store with a hint
C11_Witness ==
    /\ wtx.op = "AddMsg"
    /\ wtx.at = "PutLast"
    /\ wtx.seen
    /\ ret.op \in {"IngestTx", "BuildJusticeTx"}
    /\ WorkingCopy(db, wtx) # db
    /\ hist.commits >= 1

\* C12 (index reload): OpenDB changes no key and no value of the three
\* buckets and removes no bucket, whatever the file holds and however often
\* it was closed and opened before; an AddNewChannel commit assigns the
\* number of channels the store held as index (2 when it held two).
C12_IndexReload ==
    [][/\ ret'.op = "OpenDB" =>
              /\ db'.pkm = db.pkm
              /\ db'.cda = db.cda
              /\ db'.txi = db.txi
              /\ db.bkts \subseteq db'.bkts
              /\ ret'.err = Ok => db'.bkts = AllBuckets
       /\ (ret'.op = "AddNewChannel" /\ ret'.err = Ok) =>
              /\ Get(ChanOf(db', ret'.pkh), KEYIdx)
                     = U32tB(U32(Cardinality(DOMAIN db.cda)))
              /\ hist.atopen = 2 /\ hist'.created = 3 =>
                     Get(ChanOf(db', ret'.pkh), KEYIdx) = U32tB(U32(2))]_vars

\* a third channel committed with index 2 on a file that held two channels
\* when it was opened
C12_Witness ==
    /\ hist.atopen = 2
    /\ hist.created = 3
    /\ ret.op = "AddNewChannel"
    /\ ret.err = Ok
    /\ Get(ChanOf(db, ret.pkh), KEYIdx) = U32tB(U32(2))

\* the 0-based numbers of the outputs of badTx that pay to script
Matching(badTx, script) ==
    {i - 1 : i \in {j \in 1..Len(badTx.TxOut) : badTx.TxOut[j].PkScript = script}}

\* the least number of a set of numbers
Least(S) == CHOOSE n \in S : \A m \in S : n <= m

\* C13 (output matching): when the channel of the hint loads and the hash
\* tree yields the leaf of its state, BuildJusticeTx fails with
\* ScriptMismatch exactly when no output of the transaction pays to the
\* rebuilt script, and otherwise spends the first output that does.
C13_OutputMatching ==
    opened =>
        \A badTx \in BadTxs(db) \cup WideTxs(db), isig \in IdxSigs(db) :
            LET load == LoadChannel(db, isig)
                at == AtIndex(load.elkRcv, isig.StateIdx)
                hits == Matching(badTx, OutputScript(load.wd, at.sha))
                just == JusticeTx(db, badTx, isig)
            IN
            (load.err = Ok /\ at.err = Ok) =>
                /\ just.err = "ScriptMismatch" <=> hits = {}
                /\ hits # {} =>
                       /\ just.err = Ok
                       /\ Len(just.tx.TxIn) = 1
                       /\ just.tx.TxIn[1].PreviousOutPoint.Index = Least(hits)

\* the descriptor stored for the channel of index i
DescOfIdx(d, i) ==
    WatchannelDescriptorFromBytes(
        Get(SubBucket(d.cda, Get(d.pkm, U32tB(i))), KEYStatic)).wd

\* C14 (assembly): BuildJusticeTx writes nothing; the transaction it
\* returns is the one it builds from some transaction and hint handed over;
\* and whenever it succeeds, with n the first output that pays to the
\* rebuilt script, the transaction has one input, that spends output n of
\* the bad transaction with sequence 1, an empty signature script and the
\* witness stack [0x01], expanded signature, and one output, that pays the
\* value of output n less the fee of the channel to the P2WPKH script of
\* its pkh.
C14_JusticeAssembly ==
    [][ret'.op = "BuildJusticeTx" =>
          /\ db' = db
          /\ ret'.err # Ok => ret'.tx = NoTx
          /\ ret'.err = Ok =>
                 /\ \E badTx \in BadTxs(db), isig \in IdxSigs(db) :
                        ret'.tx = JusticeTx(db, badTx, isig).tx
                 /\ \A badTx \in BadTxs(db), isig \in IdxSigs(db) :
                        LET just == JusticeTx(db, badTx, isig)
                            wd == DescOfIdx(db, isig.PKHIdx)
                            \* the leaf of that state: the sender of a
                            \* channel has the pkh of the channel as seed
                            sha == <<wd.DestPKHScript, isig.StateIdx>>
                            hits == Matching(badTx, OutputScript(wd, sha))
                        IN
                        just.err = Ok =>
                            /\ hits # {}
                            /\ just.tx.TxIn =
                                   << [PreviousOutPoint |->
                                           [Hash |-> badTx.Id, Index |-> Least(hits)],
                                       SignatureScript |-> <<>>,
                                       Witness |-> << <<1>>, <<"der", isig.Sig>> >>,
                                       Sequence |-> 1] >>
                            /\ just.tx.TxOut =
                                   << [Value |-> badTx.TxOut[Least(hits) + 1].Value
                                                    - wd.Fee,
                                       PkScript |-> <<"wpkh", wd.DestPKHScript>>] >>]_vars

\* a justice transaction that spends the second output of a commitment
\* transaction, 5 less a fee of 1
C14_Witness ==
    /\ ret.op = "BuildJusticeTx"
    /\ ret.err = Ok
    /\ Len(ret.tx.TxIn) = 1
    /\ ret.tx.TxIn[1].PreviousOutPoint.Index = 1
    /\ ret.tx.TxOut[1].Value = 4

\* C15 (swept channels refuse hints): an AddMsg for a channel that the
\* caller has marked as swept fails with ChannelClosed and leaves the
\* receiver of the channel and the txid bucket as they were.
C15_SweptRefusesHints ==
    [][(ret'.op = "AddMsg" /\ ret'.pkh \in hist.swept) =>
          /\ ret'.err = "ChannelClosed"
          /\ db'.cda = db.cda
          /\ db'.txi = db.txi]_vars

\* C16 (uneconomic fee): when the value of the output BuildJusticeTx would
\* spend, less the fee of the channel, is not positive, BuildJusticeTx fails
\* with UneconomicFee and returns no transaction; the output of a
\* transaction it has returned has a positive value.
C16_UneconomicFee ==
    /\ opened =>
           \A badTx \in BadTxs(db), isig \in IdxSigs(db) :
               LET load == LoadChannel(db, isig)
                   at == AtIndex(load.elkRcv, isig.StateIdx)
                   hits == Matching(badTx, OutputScript(load.wd, at.sha))
                   just == JusticeTx(db, badTx, isig)
               IN
               (/\ load.err = Ok
                /\ at.err = Ok
                /\ hits # {}
                /\ badTx.TxOut[Least(hits) + 1].Value - load.wd.Fee <= 0) =>
                   (just.err = "UneconomicFee" /\ just.tx = NoTx)
    /\ (ret.op = "BuildJusticeTx" /\ ret.err = Ok) => ret.tx.TxOut[1].Value > 0

\* in store s the channels and the entries of the map bucket are in
\* bijection: the map bucket names every channel under its index, every
\* entry of the map bucket names a channel with that index, and no two
\* channels have the same index
Bijection(s) ==
    /\ \A c \in DOMAIN s.cda : Get(s.pkm, Get(s.cda[c], KEYIdx)) = c
    /\ \A k \in DOMAIN s.pkm : Get(SubBucket(s.cda, s.pkm[k]), KEYIdx) = k
    /\ \A c, e \in DOMAIN s.cda :
           c # e => Get(s.cda[c], KEYIdx) # Get(s.cda[e], KEYIdx)

\* C17 (index/channel bijection): every step leaves channels and map
\* bucket in bijection, and leaves every index that was assigned with the
\* pkh it was assigned to, also when the index of a new channel, the
\* greatest key plus one, wraps around.
C17_IndexBijection ==
    [][/\ Bijection(db')
       /\ \A k \in DOMAIN db.pkm : Get(db'.pkm, k) = db.pkm[k]
       /\ \A c \in DOMAIN db.cda :
              Get(SubBucket(db'.cda, c), KEYIdx) = Get(db.cda[c], KEYIdx)]_vars

\* C18 (different 16-byte prefixes do not interfere): an AddMsg commit
\* leaves the entry of every earlier commit whose transaction id differs
\* from its own in the first 16 bytes as it was, and after commits with
\* pairwise different first 16 bytes the txid bucket holds one entry per
\* commit.
C18_DistinctPrefixes ==
    [][(ret'.op = "AddMsg" /\ ret'.err = Ok) =>
          /\ \A a \in hist.added :
                 IngestKey(a.txid) # IngestKey(ret'.txid) =>
                     \A k \in DOMAIN db.txi :
                         IsPrefix(k, a.txid) => Get(db'.txi, k) = db.txi[k]
          /\ Cardinality({IngestKey(a.txid) : a \in hist'.added}) = hist'.commits =>
                 Cardinality(DOMAIN db'.txi) = hist'.commits]_vars

C20_StableReconstruction ==
    [][\A k \in DOMAIN db.txi :
          LET h == IdxSigFromBytes(db.txi[k]).sig
              before == LoadChannel(db, h)
              after == LoadChannel(db', h)
          IN
          /\ AtIndex(after.elkRcv, h.StateIdx) = AtIndex(before.elkRcv, h.StateIdx)
          /\ after.wd = before.wd
          /\ after.err = before.err
          /\ \A badTx \in BadTxs(db) :
                 JusticeTx(db', badTx, h) = JusticeTx(db, badTx, h)]_vars

====
